---- MODULE Spec2Model ----
(***************************************************************************)
(* Model of loan_calculator.py: the interactive command loop (main), its   *)
(* three handlers, the in-memory request store, the interest calculator    *)
(* and the JSON export.                                                    *)
(*                                                                         *)
(* Conventions                                                             *)
(*  - a date is its proleptic Gregorian ordinal (date.toordinal());        *)
(*  - a float is an exact rational <<n, d>> with d > 0 in lowest terms;    *)
(*    rounding, overflow, inf and nan of IEEE doubles are not modelled;    *)
(*  - one line typed by the user is a string; the parsers are tables over  *)
(*    the sample lines, anything outside the tables raises ValueError;     *)
(*  - every action is one resumption of the program at a blocking input()  *)
(*    call, up to the next input() call or the end of the program.         *)
(***************************************************************************)
EXTENDS Integers, Sequences, FiniteSets, TLC

VARIABLES
    pc,         \* where the program waits for a line of input
    command,    \* main(): the local `command`
    store,      \* in_mem_store: id -> <<Input, Output>>
    id,         \* _handle_edit_existing_input(): the local `id` (0: unset)
    vals,       \* the handler's field locals assigned so far, in prompt order
    rejects,    \* "Invalid input." lines printed by the running handler
    printed,    \* the "Request ID: <id>" lines printed so far
    response,   \* _handle_exit(): the local `response`
    saves,      \* number of calls of _save_to_file
    file,       \* loan_requests.json: NoFile or the blob written
    err,        \* the exception that ended the program, "none" otherwise
    line        \* the last line input() returned ("" before the first)

vars == <<pc, command, store, id, vals, rejects, printed, response, saves, file, err, line>>

----------------------------------------------------------------------------
(* Bounds *)

MaxNew == 2         \* 'new' is not chosen once the store holds MaxNew entries
MaxRejects == 1     \* the count of rejected lines saturates here

----------------------------------------------------------------------------
(* Rational arithmetic standing for Python float arithmetic *)

Abs(x) == IF x < 0 THEN -x ELSE x

RECURSIVE GCD(_, _)
GCD(a, b) == IF b = 0 THEN a ELSE GCD(b, a % b)

RNorm(n, d) ==
    LET g == GCD(Abs(n), Abs(d))
        s == IF d < 0 THEN -1 ELSE 1
    IN  <<(s * n) \div g, (s * d) \div g>>

RInt(i) == <<i, 1>>
RAdd(x, y) == RNorm(x[1] * y[2] + y[1] * x[2], x[2] * y[2])
RMul(x, y) == RNorm(x[1] * y[1], x[2] * y[2])
RDivInt(x, k) == RNorm(x[1], x[2] * k)

----------------------------------------------------------------------------
(* Parsers of one line of input *)

ValueError == [ok |-> FALSE]
Ok(v) == [ok |-> TRUE, val |-> v]

\* datetime.date.fromisoformat followed by toordinal
IsoDates ==
    ("2024-01-01" :> 738886) @@ ("2024-01-02" :> 738887) @@
    ("2024-01-03" :> 738888) @@ ("2025-01-01" :> 739252)

FromIsoFormat(raw) ==
    IF raw \in DOMAIN IsoDates THEN Ok(IsoDates[raw]) ELSE ValueError

\* float(str)
FloatLiterals ==
    ("0" :> <<0, 1>>) @@ ("1000" :> <<1000, 1>>) @@ ("100000" :> <<100000, 1>>) @@
    ("5.0" :> <<5, 1>>) @@ ("1.0" :> <<1, 1>>) @@ ("0.5" :> <<1, 2>>) @@
    ("-5" :> <<-5, 1>>) @@ ("-1.0" :> <<-1, 1>>)

Float(raw) ==
    IF raw \in DOMAIN FloatLiterals THEN Ok(FloatLiterals[raw]) ELSE ValueError

\* int(str)
IntLiterals == ("0" :> 0) @@ ("1" :> 1) @@ ("2" :> 2) @@ ("3" :> 3) @@ ("4" :> 4) @@ ("5" :> 5)

Int_(raw) ==
    IF raw \in DOMAIN IntLiterals THEN Ok(IntLiterals[raw]) ELSE ValueError

\* str.strip().lower()
StripLower(raw) ==
    CASE raw = " New "  -> "new"
      [] raw = "EDIT"   -> "edit"
      [] raw = " Exit " -> "exit"
      [] raw = " Y"     -> "y"
      [] raw = "N "     -> "n"
      [] OTHER          -> raw

CURRENCIES == {"USD", "EUR", "GBP"}

_get_user_currency(raw) ==
    IF raw \in CURRENCIES THEN Ok(raw) ELSE ValueError

_get_request_id_from_user_nocheck(raw, s) == Int_(raw)

_get_request_id_from_user_range(raw, s) ==
    LET r == Int_(raw)
    IN  IF ~r.ok THEN ValueError
        ELSE IF r.val < 0 \/ r.val > Cardinality(DOMAIN s) THEN ValueError
        ELSE Ok(r.val)

_get_request_id_from_user(raw, s) ==
    LET r == Int_(raw)
    IN  IF ~r.ok THEN ValueError
        ELSE IF r.val \notin DOMAIN s THEN ValueError
        ELSE Ok(r.val)

----------------------------------------------------------------------------
(* The calculator *)

Input(v) ==
    [start_date |-> v[1], end_date |-> v[2], loan_amount |-> v[3],
     loan_currency |-> v[4], base_interest_rate |-> v[5], margin |-> v[6]]

_get_interest_rate(input_data) ==
    RDivInt(RAdd(input_data.base_interest_rate, input_data.margin), 100)

_get_daily_base_interest(input_data) ==
    RDivInt(RDivInt(RMul(input_data.loan_amount, input_data.base_interest_rate), 100), 365)

_get_daily_total_interest_365(input_data) ==
    RDivInt(RMul(input_data.loan_amount, _get_interest_rate(input_data)), 365)

_get_daily_total_interest(input_data) ==
    RDivInt(RMul(input_data.loan_amount, _get_interest_rate(input_data)), 356)

_get_days_since_start(input_data, today) == today - input_data.start_date

_get_total_loan_days(input_data) == input_data.end_date - input_data.start_date

_get_total_interest_abs(input_data) ==
    RMul(RMul(input_data.loan_amount, _get_interest_rate(input_data)),
         RDivInt(RInt(Abs(_get_total_loan_days(input_data))), 365))

_get_total_interest(input_data) ==
    RMul(RMul(input_data.loan_amount, _get_interest_rate(input_data)),
         RDivInt(RInt(_get_total_loan_days(input_data)), 365))

_calculate_output(input_data, today) ==
    [daily_base_interest  |-> _get_daily_base_interest(input_data),
     daily_total_interest |-> _get_daily_total_interest(input_data),
     accrual_date         |-> input_data.start_date,
     days_since_start     |-> _get_days_since_start(input_data, today),
     total_interest       |-> _get_total_interest(input_data),
     loan_currency        |-> input_data.loan_currency]

----------------------------------------------------------------------------
(* The store and its export *)

EmptyStore == [k \in {} |-> <<>>]

PutKeepOld(s, k, pair) ==
    [j \in DOMAIN s \cup {k} |-> IF j \in DOMAIN s THEN s[j] ELSE pair]

\* in_mem_store[k] = pair
Put(s, k, pair) == [j \in DOMAIN s \cup {k} |-> IF j = k THEN pair ELSE s[j]]

len(s) == Cardinality(DOMAIN s)

NextIdOffByOne(s) == Cardinality(DOMAIN s)

NextIdConstant(s) == 1

\* id = len(in_mem_store) + 1
NextId(s) == len(s) + 1

\* the field types of the two NamedTuples, in declaration order
InputTypes == <<"date", "date", "float", "str", "float", "float">>
OutputTypes == <<"float", "float", "date", "int", "float", "str">>

InputTuple(i) ==
    <<i.start_date, i.end_date, i.loan_amount, i.loan_currency,
      i.base_interest_rate, i.margin>>

OutputTuple(o) ==
    <<o.daily_base_interest, o.daily_total_interest, o.accrual_date,
      o.days_since_start, o.total_interest, o.loan_currency>>

\* json.JSONEncoder: the types it encodes; any other raises TypeError
JsonSerializable(type) == type \in {"float", "int", "str"}

\* encoding of a tuple as a JSON array: the items written before the first
\* item the encoder cannot encode
EncodeTuple(types, tuple) ==
    LET bad == {i \in 1..Len(types) : ~JsonSerializable(types[i])}
    IN  IF bad = {} THEN [ok |-> TRUE, items |-> tuple]
        ELSE LET first == CHOOSE i \in bad : \A j \in bad : i <= j
             IN  [ok |-> FALSE, items |-> SubSeq(tuple, 1, first - 1)]

EncodeEntry(s, k) ==
    LET i == EncodeTuple(InputTypes, InputTuple(s[k][1]))
        o == EncodeTuple(OutputTypes, OutputTuple(s[k][2]))
    IN  [ok  |-> i.ok /\ o.ok,
         key |-> ToString(k),
         inp |-> i.items,
         out |-> IF i.ok THEN o.items ELSE <<>>]

\* the keys of the dict in iteration order (ids are inserted in rising order)
RECURSIVE KeysInOrder(_)
KeysInOrder(K) ==
    IF K = {} THEN <<>>
    ELSE LET m == CHOOSE k \in K : \A j \in K : k <= j
         IN  <<m>> \o KeysInOrder(K \ {m})

\* json.dump(in_mem_store, f): what reaches the file, and whether it raised
json_dump(s) ==
    LET keys == KeysInOrder(DOMAIN s)
        bad  == {n \in 1..Len(keys) : ~EncodeEntry(s, keys[n]).ok}
    IN  IF bad = {}
        THEN [raised |-> FALSE,
              blob   |-> [closed  |-> TRUE,
                          entries |-> [n \in 1..Len(keys) |-> EncodeEntry(s, keys[n])]]]
        ELSE LET first == CHOOSE n \in bad : \A m \in bad : n <= m
             IN  [raised |-> TRUE,
                  blob   |-> [closed  |-> FALSE,
                              entries |-> [n \in 1..first |-> EncodeEntry(s, keys[n])]]]

\* json.loads of a blob: a dict from key strings to [input array, output array]
json_loads(blob) ==
    IF ~blob.closed THEN [ok |-> FALSE]
    ELSE [ok  |-> TRUE,
          val |-> [key \in {blob.entries[n].key : n \in DOMAIN blob.entries} |->
                    LET n == CHOOSE m \in DOMAIN blob.entries : blob.entries[m].key = key
                    IN  <<blob.entries[n].inp, blob.entries[n].out>>]]

NoFile == [exists |-> FALSE]
FileOf(blob) == [exists |-> TRUE, blob |-> blob]

----------------------------------------------------------------------------
(* The lines the user types *)

CommandInputs == {" New ", "EDIT", "exit", "help"}
DateInputs == {"2024-01-01", "2024-01-02", "01/02/2024"}
AmountInputs == {"1000", "lots"}
CurrencyInputs == {"USD", "JPY"}
RateInputs == {"5.0", "five"}
MarginInputs == {"1.0", "0.5", "1,0"}
IdInputs == DOMAIN IntLiterals \cup {"one"}
ResponseInputs == {" Y", "n", "yes"}

\* date.today() at the moments _calculate_output runs: the session stays
\* within 2024-01-03 (CalcTodays varies the clock for the calculator)
Todays == {738888}

FieldInputs == <<DateInputs, DateInputs, AmountInputs, CurrencyInputs, RateInputs, MarginInputs>>

\* the callback handed to _get_user_value at the k-th field prompt
ParseField(k, raw) ==
    CASE k \in {1, 2}    -> FromIsoFormat(raw)
      [] k \in {3, 5, 6} -> Float(raw)
      [] k = 4           -> _get_user_currency(raw)

NumFields == 6

Bump(r) == IF r < MaxRejects THEN r + 1 ELSE r

PromptPositions == {"parse_command", "handle_new", "edit_id", "handle_edit", "handle_exit"}

----------------------------------------------------------------------------
(* The program *)

Init ==
    /\ pc = "parse_command"
    /\ command = "None"
    /\ store = EmptyStore
    /\ id = 0
    /\ vals = <<>>
    /\ rejects = 0
    /\ printed = <<>>
    /\ response = "None"
    /\ saves = 0
    /\ file = NoFile
    /\ err = "none"
    /\ line = ""

MainLoopForever(cmd) == "parse_command"

\* main(): `while command != Commmad.EXIT`, then print("Goodbye!")
MainLoopNext(cmd) == IF cmd # "EXIT" THEN "parse_command" ELSE "done"

\* main() at _parse_command(): one line read at the command prompt
ParseCommand ==
    /\ pc = "parse_command"
    /\ \E raw \in CommandInputs :
         LET c == StripLower(raw)
         IN  /\ c = "new" => len(store) < MaxNew
             /\ line' = raw
             /\ IF c = "new"
                THEN pc' = "handle_new" /\ command' = "NEW_INPUT"
                ELSE IF c = "edit"
                THEN pc' = "edit_id" /\ command' = "EDIT_EXISTING"
                ELSE IF c = "exit"
                THEN pc' = "handle_exit" /\ command' = "EXIT"
                ELSE UNCHANGED <<pc, command>>
    /\ UNCHANGED <<store, id, vals, rejects, printed, response, saves, file, err>>

\* _handle_new_input(): one line read at the prompt of field Len(vals) + 1
HandleNewInput(inputs, todays) ==
    /\ pc = "handle_new"
    /\ \E raw \in inputs[Len(vals) + 1], today \in todays :
         LET r == ParseField(Len(vals) + 1, raw)
         IN  /\ line' = raw
             /\ IF ~r.ok
                THEN /\ rejects' = Bump(rejects)
                     /\ UNCHANGED <<pc, vals, store, printed>>
                ELSE IF Len(vals) + 1 < NumFields
                THEN /\ vals' = Append(vals, r.val)
                     /\ UNCHANGED <<pc, rejects, store, printed>>
                ELSE LET input_data  == Input(Append(vals, r.val))
                         output_data == _calculate_output(input_data, today)
                         new_id      == NextId(store)
                     IN  /\ store' = Put(store, new_id, <<input_data, output_data>>)
                         /\ printed' = Append(printed, new_id)
                         /\ pc' = MainLoopNext(command)
                         /\ vals' = <<>>
                         /\ rejects' = 0
    /\ UNCHANGED <<command, id, response, saves, file, err>>

\* _handle_edit_existing_input(): one line read at the request-id prompt
EditRequestId ==
    /\ pc = "edit_id"
    /\ \E raw \in IdInputs :
         LET r == _get_request_id_from_user(raw, store)
         IN  /\ line' = raw
             /\ IF ~r.ok
                THEN /\ rejects' = Bump(rejects)
                     /\ UNCHANGED <<pc, id, err>>
                ELSE IF r.val \notin DOMAIN store
                THEN \* in_mem_store[id] raises KeyError
                     /\ pc' = "crashed"
                     /\ err' = "KeyError"
                     /\ UNCHANGED <<id, rejects>>
                ELSE /\ id' = r.val
                     /\ pc' = "handle_edit"
                     /\ UNCHANGED <<rejects, err>>
    /\ UNCHANGED <<command, store, vals, printed, response, saves, file>>

HandleEditEager(inputs, todays) ==
    /\ pc = "handle_edit"
    /\ \E raw \in inputs[Len(vals) + 1], today \in todays :
         LET r == ParseField(Len(vals) + 1, raw)
             old == InputTuple(store[id][1])
         IN  /\ line' = raw
             /\ IF ~r.ok
                THEN /\ rejects' = Bump(rejects)
                     /\ UNCHANGED <<pc, vals, store, id>>
                ELSE IF Len(vals) + 1 < NumFields
                THEN /\ vals' = Append(vals, r.val)
                     /\ store' = Put(store, id,
                            <<Input(Append(vals, r.val) \o SubSeq(old, Len(vals) + 2, NumFields)),
                              store[id][2]>>)
                     /\ UNCHANGED <<pc, rejects, id>>
                ELSE LET input_data  == Input(Append(vals, r.val))
                         output_data == _calculate_output(input_data, today)
                     IN  /\ store' = Put(store, id, <<input_data, output_data>>)
                         /\ pc' = MainLoopNext(command)
                         /\ vals' = <<>>
                         /\ rejects' = 0
                         /\ id' = 0
    /\ UNCHANGED <<command, printed, response, saves, file, err>>

\* _handle_edit_existing_input(): one line read at the prompt of field Len(vals) + 1
HandleEditExistingInput(inputs, todays) ==
    /\ pc = "handle_edit"
    /\ \E raw \in inputs[Len(vals) + 1], today \in todays :
         LET r == ParseField(Len(vals) + 1, raw)
         IN  /\ line' = raw
             /\ IF ~r.ok
                THEN /\ rejects' = Bump(rejects)
                     /\ UNCHANGED <<pc, vals, store, id>>
                ELSE IF Len(vals) + 1 < NumFields
                THEN /\ vals' = Append(vals, r.val)
                     /\ UNCHANGED <<pc, rejects, store, id>>
                ELSE LET input_data  == Input(Append(vals, r.val))
                         output_data == _calculate_output(input_data, today)
                     IN  /\ store' = Put(store, id, <<input_data, output_data>>)
                         /\ pc' = MainLoopNext(command)
                         /\ vals' = <<>>
                         /\ rejects' = 0
                         /\ id' = 0
    /\ UNCHANGED <<command, printed, response, saves, file, err>>

\* _save_to_file(): open(..., "w") creates or truncates the file, json.dump
\* writes to it until it returns or raises
_save_to_file(s) == json_dump(s)

\* _handle_exit() and the end of main(): one line read at the save prompt
HandleExit ==
    /\ pc = "handle_exit"
    /\ \E raw \in ResponseInputs :
         LET resp == StripLower(raw)
         IN  /\ line' = raw
             /\ response' = resp
             /\ IF resp \notin {"y", "n"}
                THEN UNCHANGED <<pc, saves, file, err>>
                ELSE IF resp = "y"
                THEN LET d == _save_to_file(store)
                     IN  /\ saves' = saves + 1
                         /\ file' = FileOf(d.blob)
                         /\ IF d.raised
                            THEN pc' = "crashed" /\ err' = "TypeError"
                            ELSE pc' = MainLoopNext(command) /\ UNCHANGED err
                ELSE /\ pc' = MainLoopNext(command)
                     /\ UNCHANGED <<saves, file, err>>
    /\ UNCHANGED <<command, store, id, vals, rejects, printed>>

\* input() raises EOFError at any prompt; nothing catches it
InputEOF ==
    /\ pc \in PromptPositions
    /\ pc' = "crashed"
    /\ err' = "EOFError"
    /\ UNCHANGED <<command, store, id, vals, rejects, printed, response, saves, file, line>>

NewInputStep == HandleNewInput(FieldInputs, Todays)
EditInputStep == HandleEditExistingInput(FieldInputs, Todays)

Next ==
    \/ ParseCommand
    \/ NewInputStep
    \/ EditRequestId
    \/ EditInputStep
    \/ HandleExit
    \/ InputEOF

Spec == Init /\ [][Next]_vars

----------------------------------------------------------------------------
(* The calculator on its own: _handle_new_input() waits at its last prompt  *)
(* with five fields read, over a wider sample of field values               *)

CalcDateInputs == {"2024-01-01", "2024-01-02", "2024-01-03", "2025-01-01"}
CalcAmountInputs == {"0", "1000", "100000"}
CalcRateInputs == {"0", "5.0", "0.5", "-5"}
CalcMarginInputs == {"0", "1.0", "0.5", "-5", "-1.0", "1 %"}
CalcTodays == {738887, 739252}

CalcFieldInputs ==
    <<CalcDateInputs, CalcDateInputs, CalcAmountInputs, CURRENCIES, CalcRateInputs, CalcMarginInputs>>

CalcInit ==
    /\ pc = "handle_new"
    /\ command = "NEW_INPUT"
    /\ store = EmptyStore
    /\ id = 0
    /\ \E s \in CalcDateInputs, e \in CalcDateInputs, a \in CalcAmountInputs,
          c \in CURRENCIES, b \in CalcRateInputs :
         /\ vals = <<FromIsoFormat(s).val, FromIsoFormat(e).val, Float(a).val,
                     _get_user_currency(c).val, Float(b).val>>
         /\ line = b
    /\ rejects = 0
    /\ printed = <<>>
    /\ response = "None"
    /\ saves = 0
    /\ file = NoFile
    /\ err = "none"

CalcStep == HandleNewInput(CalcFieldInputs, CalcTodays)

CalcNext == CalcStep

CalcSpec == CalcInit /\ [][CalcNext]_vars

----------------------------------------------------------------------------
(* Properties *)

NewCompletes == pc = "handle_new" /\ pc' = "parse_command"
EditCompletes == pc = "handle_edit" /\ pc' = "parse_command"

Printed == {printed[n] : n \in DOMAIN printed}

\* the pair assembled from the fields read so far and the line just read
SuppliedPair(pair) ==
    /\ SubSeq(InputTuple(pair[1]), 1, NumFields - 1) = vals
    /\ Float(line').ok
    /\ pair[1].margin = Float(line').val
    /\ \E t \in Todays : pair[2] = _calculate_output(pair[1], t)

OthersUnchanged(k) ==
    \A j \in DOMAIN store \ {k} : j \in DOMAIN store' /\ store'[j] = store[j]

\* C1: the k-th 'new' stores its pair under identifier k: the identifier is
\* the size of the store plus one, it was not a key before, and the
\* identifiers printed so far are 1, 2, ..., N in call order.
C1_NewIdsInCallOrder ==
    /\ [](/\ printed = [k \in 1..Len(printed) |-> k]
          /\ DOMAIN store = 1..Len(printed))
    /\ [][NewCompletes =>
            /\ Len(printed') = Len(printed) + 1
            /\ LET k == printed'[Len(printed')]
               IN  /\ k = Cardinality(DOMAIN store) + 1
                   /\ k \notin DOMAIN store
                   /\ DOMAIN store' = DOMAIN store \cup {k}
                   /\ SuppliedPair(store'[k])
                   /\ OthersUnchanged(k)]_vars

C1_Witness ==
    /\ Len(printed) >= 2
    /\ printed[1] = 1 /\ printed[2] = 2
    /\ pc = "parse_command" /\ command = "NEW_INPUT"

\* C2: when an edit of id completes, the store holds under id exactly the
\* newly supplied pair; no other entry changes and no key is added, so the
\* previous pair is kept nowhere.
C2_EditReplacesPair ==
    [][EditCompletes =>
        /\ id \in DOMAIN store
        /\ DOMAIN store' = DOMAIN store
        /\ SuppliedPair(store'[id])
        /\ OthersUnchanged(id)]_vars

C2_Witness ==
    /\ pc = "parse_command" /\ command = "EDIT_EXISTING"
    /\ Float(line).ok
    /\ \E k \in DOMAIN store : store[k][1].margin = Float(line).val
    /\ Cardinality(DOMAIN store) >= 2

\* C3: a line at the request-id prompt that does not name an identifier
\* printed by an earlier 'new' is rejected: the prompt is repeated, the store
\* and the edit's id are untouched, and the store is never indexed by a key
\* it does not hold (no KeyError; an edit in progress has a stored id).
C3_UnknownIdRejected ==
    /\ [](/\ err # "KeyError"
          /\ pc = "handle_edit" => id \in DOMAIN store /\ id \in Printed)
    /\ [][(/\ pc = "edit_id"
           /\ err' # "EOFError"
           /\ ~(Int_(line').ok /\ Int_(line').val \in Printed))
          => /\ pc' = "edit_id"
             /\ err' = "none"
             /\ store' = store
             /\ id' = id]_vars

C3_Witness ==
    /\ pc = "edit_id"
    /\ store # EmptyStore
    /\ rejects >= 1
    /\ Int_(line).ok /\ Int_(line).val \notin DOMAIN store

CompletePair(pair) == \E t \in Todays : pair[2] = _calculate_output(pair[1], t)

EditStoreStep ==
    \/ store' = store
    \/ (EditCompletes /\ SuppliedPair(store'[id]) /\ OthersUnchanged(id))

\* C4: during an edit the store changes only in the step that completes it,
\* and then by the whole supplied pair; rejected lines and an abandoned edit
\* leave it as it was, and every stored output is the output of its input.
C4_EditAllOrNothing ==
    /\ [](\A k \in DOMAIN store : CompletePair(store[k]))
    /\ [][(pc \in {"edit_id", "handle_edit"}) => EditStoreStep]_vars

C4_Witness ==
    /\ pc = "handle_edit"
    /\ rejects >= 1
    /\ Len(vals) = NumFields - 1
    /\ SubSeq(InputTuple(store[id][1]), 1, NumFields - 1) # vals

\* C5: the store never shrinks: a completed 'new' adds exactly one entry, a
\* completed 'edit' keeps the set of identifiers and changes only the pair
\* under the edited one, and no other step changes the store.
C5_StoreNeverShrinks ==
    [][/\ Cardinality(DOMAIN store') >= Cardinality(DOMAIN store)
       /\ NewCompletes => /\ Cardinality(DOMAIN store') = Cardinality(DOMAIN store) + 1
                          /\ OthersUnchanged(0)
       /\ EditCompletes => DOMAIN store' = DOMAIN store /\ OthersUnchanged(id)
       /\ ~NewCompletes /\ ~EditCompletes => store' = store]_vars

C5_Witness ==
    /\ Cardinality(DOMAIN store) = 2
    /\ command = "EDIT_EXISTING"
    /\ pc = "parse_command"
    /\ store[1] # store[2]

\* C6: the export runs at most once, only after 'exit' was answered with
\* 'y', and the program has then ended (no retry, no 'new' or 'edit'); an
\* answer of 'n' leaves no export and no file.
C6_ExportAtMostOnce ==
    /\ [](/\ saves <= 1
          /\ saves = 1 => /\ command = "EXIT"
                          /\ response = "y"
                          /\ pc \in {"done", "crashed"}
          /\ file # NoFile => saves = 1
          /\ response = "n" => saves = 0 /\ file = NoFile /\ pc = "done")
    /\ [][saves >= 1 => UNCHANGED <<store, saves, file, printed>>]_vars

C6_Witness == saves = 1 /\ response = "y" /\ pc = "done" /\ file # NoFile

C6_WitnessDeclined == response = "n" /\ pc = "done" /\ store # EmptyStore

RoundTrips(s, f) ==
    /\ f.exists
    /\ LET p == json_loads(f.blob)
       IN  /\ p.ok
           /\ DOMAIN p.val = {ToString(k) : k \in DOMAIN s}
           /\ \A k \in DOMAIN s :
                /\ p.val[ToString(k)][1] = InputTuple(s[k][1])
                /\ Len(p.val[ToString(k)][2]) = Len(OutputTypes)
                /\ \A i \in 1..Len(OutputTypes) :
                     OutputTypes[i] # "int" =>
                       p.val[ToString(k)][2][i] = OutputTuple(s[k][2])[i]

\* C7: once the store has been exported, parsing the file back gives the
\* same identifiers, each with the same input and output field values
\* (days_since_start excluded).
C7_ExportRoundTrip == saves = 1 => RoundTrips(store, file)

\* numerator of loan_amount * (base_interest_rate + margin), over a positive
\* denominator
RateProduct(i) ==
    i.loan_amount[1] *
        (i.base_interest_rate[1] * i.margin[2] + i.margin[1] * i.base_interest_rate[2])

RateProductDen(i) == i.loan_amount[2] * i.base_interest_rate[2] * i.margin[2]

Sign(n) == IF n < 0 THEN -1 ELSE IF n = 0 THEN 0 ELSE 1

\* C8 (as stated): for end_date earlier than start_date the calculator does
\* not raise, totalLoanDays is negative and totalInterest is negative.
C8_NegativeTermNegativeInterest ==
    \A k \in DOMAIN store :
        LET i == store[k][1]
        IN  i.end_date < i.start_date =>
              /\ err = "none"
              /\ _get_total_loan_days(i) < 0
              /\ store[k][2].total_interest[1] < 0

\* C8 (amended): for end_date earlier than start_date the calculator does
\* not raise, totalLoanDays is negative, and totalInterest has the sign
\* opposite to loan_amount * (base_interest_rate + margin): negative when
\* that product is positive, zero when it is zero, positive when negative.
C8_NegativeTermOppositeSign ==
    \A k \in DOMAIN store :
        LET i == store[k][1]
        IN  i.end_date < i.start_date =>
              /\ err = "none"
              /\ _get_total_loan_days(i) < 0
              /\ Sign(store[k][2].total_interest[1]) = -Sign(RateProduct(i))

C8_Witness ==
    \E k \in DOMAIN store :
        /\ store[k][1].end_date < store[k][1].start_date
        /\ store[k][1].loan_amount[1] > 0
        /\ store[k][2].total_interest[1] < 0

\* C9: dailyTotalInterest is loan_amount * (base_interest_rate + margin) / 100
\* divided by 356, and not by 365 unless it is zero; dailyBaseInterest is
\* loan_amount * base_interest_rate / 100 divided by 365.
C9_DailyDivisors ==
    \A k \in DOMAIN store :
        LET i == store[k][1]
            o == store[k][2]
        IN  /\ o.daily_total_interest[1] * 100 * 356 * RateProductDen(i)
                 = RateProduct(i) * o.daily_total_interest[2]
            /\ RateProduct(i) # 0 =>
                 o.daily_total_interest[1] * 100 * 365 * RateProductDen(i)
                   # RateProduct(i) * o.daily_total_interest[2]
            /\ o.daily_base_interest[1] * 100 * 365
                   * i.loan_amount[2] * i.base_interest_rate[2]
                 = i.loan_amount[1] * i.base_interest_rate[1] * o.daily_base_interest[2]

C9_Witness ==
    \E k \in DOMAIN store :
        /\ store[k][1].loan_amount = <<100000, 1>>
        /\ store[k][1].base_interest_rate = <<5, 1>>
        /\ store[k][1].margin = <<1, 1>>
        /\ store[k][2].daily_total_interest = <<1500, 89>>
        /\ store[k][2].daily_base_interest = <<1000, 73>>

EmptyStoreEditStep ==
    /\ store' = EmptyStore
    /\ \/ (pc' = "edit_id" /\ err' = "none")
       \/ (pc' = "crashed" /\ err' = "EOFError")

\* some line is accepted at the prompt an edit waits at
EditCanProceed ==
    /\ (pc = "edit_id" /\ store # EmptyStore) =>
         \E raw \in IdInputs :
            LET r == _get_request_id_from_user(raw, store)
            IN  r.ok /\ r.val \in DOMAIN store
    /\ pc = "handle_edit" =>
         \E raw \in FieldInputs[Len(vals) + 1] : ParseField(Len(vals) + 1, raw).ok

\* C10: with an empty store the request-id prompt accepts no line: each step
\* there repeats the prompt or ends the program with EOFError, so the edit
\* never updates and the command prompt is not reached again.  With a
\* non-empty store some line is accepted at the request-id prompt and at
\* each field prompt, so an edit can complete.
C10_EditOnEmptyStoreNeverReturns ==
    /\ [][(pc = "edit_id" /\ store = EmptyStore) => EmptyStoreEditStep]_vars
    /\ []EditCanProceed

C10_Witness ==
    /\ pc = "edit_id"
    /\ store = EmptyStore
    /\ rejects >= 1
    /\ Int_(line).ok

====
